---- MODULE Spec2Model ----
(***************************************************************************)
(* Model of graph_builder/graph/graph.py: the Operator link protocol       *)
(* (inputs / outputs slot maps and the Variable back-links input_to /      *)
(* output_from).  Python dicts are modelled with their insertion order,    *)
(* because get_input_name / get_output_name return the first matching      *)
(* slot in iteration order.  Every method is a pure operator on a graph    *)
(* record that returns the graph it leaves behind together with the        *)
(* exception it raised (if any); the actions apply these operators.        *)
(***************************************************************************)
EXTENDS Integers, Sequences, FiniteSets, TLC

\* ---- bounds of the model ----
NumOps == 2
NumVars == 2
NumSlots == 2
MaxCalls == 4
MaxInCalls == 3

\* Python's None (Variable.output_from default); operators are 1..NumOps
None == 0

Ops == 1..NumOps
Vars == 1..NumVars
Slots == 1..NumSlots

VARIABLES inputs, outputs, input_to, output_from, call, pre, ncalls

\* one Variable's own fields: alive is FALSE until its construction succeeds;
\* vcall is the last call on it, vpre the fields before that call
VARIABLES shape, axis_order, attributes, alive, vcall, vpre

linkvars == <<inputs, outputs, input_to, output_from, call, pre, ncalls>>

axisvars == <<shape, axis_order, attributes, alive, vcall, vpre>>

vars == <<inputs, outputs, input_to, output_from, call, pre, ncalls,
          shape, axis_order, attributes, alive, vcall, vpre>>

\* ---- Python dict, insertion ordered: a sequence of (name, var) items ----
DictNames(d) == {d[i].name : i \in 1..Len(d)}

DictValues(d) == {d[i].var : i \in 1..Len(d)}

\* the mapping a dict denotes (dict equality in Python ignores order)
DictMap(d) == {<<d[i].name, d[i].var>> : i \in 1..Len(d)}

DictGet(d, k) == (CHOOSE i \in 1..Len(d) : d[i].name = k)

\* d[k] = v : an existing key keeps its position, a new key goes last
DictSet(d, k, v) ==
    IF k \in DictNames(d)
    THEN [i \in 1..Len(d) |-> IF d[i].name = k THEN [name |-> k, var |-> v] ELSE d[i]]
    ELSE Append(d, [name |-> k, var |-> v])

\* d.pop(k) for a key that is present
DictPop(d, k) == SelectSeq(d, LAMBDA e : e.name # k)

\* ---- results of a call ----
Ok == [exc |-> "none", line |-> 0]

Raise(e, l) == [exc |-> e, line |-> l]

\* the graph as one record
Graph == [inputs |-> inputs, outputs |-> outputs,
          input_to |-> input_to, output_from |-> output_from]

\* the for/else loop of get_input_name and get_output_name over d.items():
\* returns the first name whose value is var; the else branch formats the
\* loop variable `name` into the message, which is unbound when d is empty
ReverseLookup(d, var, line) ==
    IF \E i \in 1..Len(d) : d[i].var = var
    THEN LET i == CHOOSE j \in 1..Len(d) :
                    /\ d[j].var = var
                    /\ \A k \in 1..(j-1) : d[k].var # var
         IN [res |-> Ok, name |-> d[i].name]
    ELSE IF Len(d) = 0
         THEN [res |-> Raise("UnboundLocalError", line), name |-> None]
         ELSE [res |-> Raise("KeyError", line), name |-> None]

get_input_name(g, self, var) == ReverseLookup(g.inputs[self], var, 48)

get_output_name(g, self, var) == ReverseLookup(g.outputs[self], var, 58)

\* mutant: an overwritten occupant is detached from the operator
append_input_detaches(g, self, name, var) ==
    LET d == g.inputs[self]
        g1 == IF name \in DictNames(d)
              THEN [g EXCEPT !.input_to[d[DictGet(d, name)].var] = @ \ {self}]
              ELSE g
    IN [g |-> [g1 EXCEPT !.inputs[self] = DictSet(@, name, var),
                         !.input_to[var] = @ \cup {self}],
        res |-> Ok]

append_input(g, self, name, var) ==
    [g |-> [g EXCEPT !.inputs[self] = DictSet(@, name, var),
                     !.input_to[var] = @ \cup {self}],
     res |-> Ok]

remove_input(g, self, var) ==
    LET r == get_input_name(g, self, var) IN
    IF r.res # Ok THEN [g |-> g, res |-> r.res]
    ELSE LET g1 == [g EXCEPT !.inputs[self] = DictPop(@, r.name)] IN
         IF self \notin g1.input_to[var]
         THEN [g |-> g1, res |-> Raise("KeyError", 67)]
         ELSE [g |-> [g1 EXCEPT !.input_to[var] = @ \ {self}], res |-> Ok]

\* mutant: the new Variable is not linked back into the slot
replace_input_no_append(g, self, v_old, v_new) ==
    LET r == get_input_name(g, self, v_old) IN
    IF r.res # Ok THEN [g |-> g, res |-> r.res]
    ELSE remove_input(g, self, v_old)

replace_input(g, self, v_old, v_new) ==
    LET r == get_input_name(g, self, v_old) IN
    IF r.res # Ok THEN [g |-> g, res |-> r.res]
    ELSE LET r1 == remove_input(g, self, v_old) IN
         IF r1.res # Ok THEN r1
         ELSE append_input(r1.g, self, r.name, v_new)

\* mutant: the producer check is missing
append_output_unchecked(g, self, name, var) ==
    [g |-> [g EXCEPT !.outputs[self] = DictSet(@, name, var),
                     !.output_from[var] = self],
     res |-> Ok]

\* mutant: the slot is written before the producer check raises
append_output_checks_late(g, self, name, var) ==
    IF g.output_from[var] # None
    THEN [g |-> [g EXCEPT !.outputs[self] = DictSet(@, name, var)],
          res |-> Raise("KeyError", 76)]
    ELSE [g |-> [g EXCEPT !.outputs[self] = DictSet(@, name, var),
                          !.output_from[var] = self],
          res |-> Ok]

\* mutant: only a producer other than self is a conflict
append_output_other_only(g, self, name, var) ==
    IF g.output_from[var] # None /\ g.output_from[var] # self
    THEN [g |-> g, res |-> Raise("KeyError", 76)]
    ELSE [g |-> [g EXCEPT !.outputs[self] = DictSet(@, name, var),
                          !.output_from[var] = self],
          res |-> Ok]

append_output(g, self, name, var) ==
    IF g.output_from[var] # None
    THEN [g |-> g, res |-> Raise("KeyError", 76)]
    ELSE [g |-> [g EXCEPT !.outputs[self] = DictSet(@, name, var),
                          !.output_from[var] = self],
          res |-> Ok]

\* mutant: the back-link is not cleared
remove_output_keeps_link(g, self, var) ==
    LET r == get_output_name(g, self, var) IN
    IF r.res # Ok THEN [g |-> g, res |-> r.res]
    ELSE [g |-> [g EXCEPT !.outputs[self] = DictPop(@, r.name)], res |-> Ok]

\* mutant: the back-link is cleared before the slot is looked up
remove_output_clears_first(g, self, var) ==
    LET g0 == [g EXCEPT !.output_from[var] = None]
        r == get_output_name(g, self, var) IN
    IF r.res # Ok THEN [g |-> g0, res |-> r.res]
    ELSE [g |-> [g0 EXCEPT !.outputs[self] = DictPop(@, r.name)], res |-> Ok]

remove_output(g, self, var) ==
    LET r == get_output_name(g, self, var) IN
    IF r.res # Ok THEN [g |-> g, res |-> r.res]
    ELSE LET popped == g.outputs[self][DictGet(g.outputs[self], r.name)].var IN
         [g |-> [g EXCEPT !.outputs[self] = DictPop(@, r.name),
                          !.output_from[popped] = None],
          res |-> Ok]

replace_output(g, self, v_old, v_new) ==
    LET r == get_output_name(g, self, v_old) IN
    IF r.res # Ok THEN [g |-> g, res |-> r.res]
    ELSE LET r1 == remove_output(g, self, v_old) IN
         IF r1.res # Ok THEN r1
         ELSE append_output(r1.g, self, r.name, v_new)

\* ---- the state machine: one action per method call ----
Init ==
    /\ inputs = [op \in Ops |-> <<>>]
    /\ outputs = [op \in Ops |-> <<>>]
    /\ input_to = [v \in Vars |-> {}]
    /\ output_from = [v \in Vars |-> None]
    /\ call = [fn |-> "init", self |-> None, name |-> None, var |-> None,
               var2 |-> None, res |-> Ok, ret |-> None]
    /\ pre = [inputs |-> [op \in Ops |-> <<>>], outputs |-> [op \in Ops |-> <<>>],
              input_to |-> [v \in Vars |-> {}], output_from |-> [v \in Vars |-> None]]
    /\ ncalls = 0
    /\ shape = <<>>
    /\ axis_order = <<>>
    /\ attributes = {}
    /\ alive = FALSE
    /\ vcall = [fn |-> "none", shape |-> <<>>, order |-> <<>>, res |-> Ok]
    /\ vpre = [shape |-> <<>>, axis_order |-> <<>>, attributes |-> {}, alive |-> FALSE]

\* a call of method fn leaves graph r.g behind and raised r.res; at most
\* limit calls are made
Step(limit, fn, self, name, var, var2, r, ret) ==
    /\ ncalls < limit
    /\ ncalls' = ncalls + 1
    /\ pre' = Graph
    /\ inputs' = r.g.inputs
    /\ outputs' = r.g.outputs
    /\ input_to' = r.g.input_to
    /\ output_from' = r.g.output_from
    /\ call' = [fn |-> fn, self |-> self, name |-> name, var |-> var,
                var2 |-> var2, res |-> r.res, ret |-> ret]
    /\ UNCHANGED axisvars

CallGetInputName(limit) ==
    \E self \in Ops, var \in Vars :
        LET r == get_input_name(Graph, self, var) IN
        Step(limit, "get_input_name", self, None, var, None,
             [g |-> Graph, res |-> r.res], r.name)

CallGetOutputName(limit) ==
    \E self \in Ops, var \in Vars :
        LET r == get_output_name(Graph, self, var) IN
        Step(limit, "get_output_name", self, None, var, None,
             [g |-> Graph, res |-> r.res], r.name)

CallAppendInput(limit) ==
    \E self \in Ops, name \in Slots, var \in Vars :
        Step(limit, "append_input", self, name, var, None,
             append_input(Graph, self, name, var), None)

CallRemoveInput(limit) ==
    \E self \in Ops, var \in Vars :
        Step(limit, "remove_input", self, None, var, None,
             remove_input(Graph, self, var), None)

CallReplaceInput(limit) ==
    \E self \in Ops, v_old \in Vars, v_new \in Vars :
        Step(limit, "replace_input", self, None, v_old, v_new,
             replace_input(Graph, self, v_old, v_new), None)

CallAppendOutput(limit) ==
    \E self \in Ops, name \in Slots, var \in Vars :
        Step(limit, "append_output", self, name, var, None,
             append_output(Graph, self, name, var), None)

CallRemoveOutput(limit) ==
    \E self \in Ops, var \in Vars :
        Step(limit, "remove_output", self, None, var, None,
             remove_output(Graph, self, var), None)

CallReplaceOutput(limit) ==
    \E self \in Ops, v_old \in Vars, v_new \in Vars :
        Step(limit, "replace_output", self, None, v_old, v_new,
             replace_output(Graph, self, v_old, v_new), None)

\* ---- Spec: every method of the link protocol, any interleaving ----
GetInputName == CallGetInputName(MaxCalls)

GetOutputName == CallGetOutputName(MaxCalls)

AppendInput == CallAppendInput(MaxCalls)

RemoveInput == CallRemoveInput(MaxCalls)

ReplaceInput == CallReplaceInput(MaxCalls)

AppendOutput == CallAppendOutput(MaxCalls)

RemoveOutput == CallRemoveOutput(MaxCalls)

ReplaceOutput == CallReplaceOutput(MaxCalls)

Next ==
    \/ GetInputName
    \/ GetOutputName
    \/ AppendInput
    \/ RemoveInput
    \/ ReplaceInput
    \/ AppendOutput
    \/ RemoveOutput
    \/ ReplaceOutput

Spec == Init /\ [][Next]_vars

\* ---- SpecOut: the output side of the protocol alone ----
\* (the input methods never read or write outputs or output_from)
OutGetOutputName == CallGetOutputName(MaxCalls)

OutAppendOutput == CallAppendOutput(MaxCalls)

OutRemoveOutput == CallRemoveOutput(MaxCalls)

OutReplaceOutput == CallReplaceOutput(MaxCalls)

NextOut ==
    \/ OutGetOutputName
    \/ OutAppendOutput
    \/ OutRemoveOutput
    \/ OutReplaceOutput

SpecOut == Init /\ [][NextOut]_vars

\* ---- SpecIn: the input side of the protocol alone ----
\* (the output methods never read or write inputs or input_to)
InGetInputName == CallGetInputName(MaxInCalls)

InAppendInput == CallAppendInput(MaxInCalls)

InRemoveInput == CallRemoveInput(MaxInCalls)

InReplaceInput == CallReplaceInput(MaxInCalls)

NextIn ==
    \/ InGetInputName
    \/ InAppendInput
    \/ InRemoveInput
    \/ InReplaceInput

SpecIn == Init /\ [][NextIn]_vars

\* ---- Variable: shape and axis order ----
MaxSize == 3

\* axis sizes: 0..MaxSize, and 8 for the shape [1, 3, 8, 8]
Sizes == (0..MaxSize) \cup {8}

\* axis-order traits (graph_builder.graph.variables.attributes): an ordered
\* list of distinct named axes
OrderC == <<"C">>

OrderNC == <<"N", "C">>

OrderCN == <<"C", "N">>

OrderCHW == <<"C", "H", "W">>

OrderNCHW == <<"N", "C", "H", "W">>

OrderNHWC == <<"N", "H", "W", "C">>

AxisOrders == {OrderC, OrderNC, OrderCN, OrderCHW, OrderNCHW, OrderNHWC}

axes(order) == order

ndim(order) == Len(order)

AxisSet(order) == {order[i] : i \in 1..Len(order)}

\* shapes handed to the constructor: every length some axis order declares
Shapes == UNION {[1..n -> Sizes] : n \in {ndim(o) : o \in AxisOrders}}

\* AxisOrder.get_shape_dict(var): the axis name -> size mapping of the shape
get_shape_dict(order, shp) ==
    [a \in AxisSet(order) |-> shp[CHOOSE i \in 1..Len(order) : order[i] = a]]

\* the Variable as one record
Var == [shape |-> shape, axis_order |-> axis_order, attributes |-> attributes,
        alive |-> alive]

shape_dict(v) == get_shape_dict(v.axis_order, v.shape)

RECURSIVE Prod(_)
Prod(shp) == IF Len(shp) = 0 THEN 1 ELSE shp[1] * Prod(Tail(shp))

size(v) == Prod(v.shape)

\* Variable.__init__: Node.__init__ copies the empty class-level attribute
\* set, the axis order is added to it, and the last statement asserts the
\* axis count
Variable_init(shp, order) ==
    [v |-> [shape |-> shp, axis_order |-> order, attributes |-> {order},
            alive |-> TRUE],
     res |-> IF ndim(order) = Len(shp) THEN Ok ELSE Raise("AssertionError", 122)]

\* mutant: no assertion on the dropped axes
change_axis_order_unchecked(v, order) ==
    LET current_shape_dict == shape_dict(v)
        new_shape == [i \in 1..Len(axes(order)) |->
                         IF axes(order)[i] \in DOMAIN current_shape_dict
                         THEN current_shape_dict[axes(order)[i]] ELSE 1]
    IN [v |-> [v EXCEPT !.axis_order = order, !.shape = new_shape], res |-> Ok]

\* mutant: a dropped axis of size 0 passes the assertion
change_axis_order_allows_zero(v, order) ==
    LET current_shape_dict == shape_dict(v)
        new_shape == [i \in 1..Len(axes(order)) |->
                         IF axes(order)[i] \in DOMAIN current_shape_dict
                         THEN current_shape_dict[axes(order)[i]] ELSE 1]
    IN IF \E axis \in DOMAIN current_shape_dict :
              axis \notin AxisSet(axes(order)) /\ current_shape_dict[axis] > 1
       THEN [v |-> v, res |-> Raise("AssertionError", 154)]
       ELSE [v |-> [v EXCEPT !.axis_order = order, !.shape = new_shape], res |-> Ok]

\* mutant: a new axis gets size 0
change_axis_order_default_zero(v, order) ==
    LET current_shape_dict == shape_dict(v)
        new_shape == [i \in 1..Len(axes(order)) |->
                         IF axes(order)[i] \in DOMAIN current_shape_dict
                         THEN current_shape_dict[axes(order)[i]] ELSE 0]
    IN IF \E axis \in DOMAIN current_shape_dict :
              axis \notin AxisSet(axes(order)) /\ current_shape_dict[axis] # 1
       THEN [v |-> v, res |-> Raise("AssertionError", 154)]
       ELSE [v |-> [v EXCEPT !.axis_order = order, !.shape = new_shape], res |-> Ok]

\* mutant: the shape is not replaced
change_axis_order_keeps_shape(v, order) ==
    LET current_shape_dict == shape_dict(v)
    IN IF \E axis \in DOMAIN current_shape_dict :
              axis \notin AxisSet(axes(order)) /\ current_shape_dict[axis] # 1
       THEN [v |-> v, res |-> Raise("AssertionError", 154)]
       ELSE [v |-> [v EXCEPT !.axis_order = order], res |-> Ok]

\* mutant: axis_order is assigned before the assertion loop
change_axis_order_assigns_first(v, order) ==
    LET current_shape_dict == shape_dict(v)
        new_shape == [i \in 1..Len(axes(order)) |->
                         IF axes(order)[i] \in DOMAIN current_shape_dict
                         THEN current_shape_dict[axes(order)[i]] ELSE 1]
    IN IF \E axis \in DOMAIN current_shape_dict :
              axis \notin AxisSet(axes(order)) /\ current_shape_dict[axis] # 1
       THEN [v |-> [v EXCEPT !.axis_order = order], res |-> Raise("AssertionError", 154)]
       ELSE [v |-> [v EXCEPT !.axis_order = order, !.shape = new_shape], res |-> Ok]

\* Variable.change_axis_order: new_shape is built from the current shape
\* dict, the loop asserts that every dropped axis has size 1, and only then
\* axis_order and shape are assigned; attributes is not touched
change_axis_order(v, order) ==
    LET current_shape_dict == shape_dict(v)
        new_shape == [i \in 1..Len(axes(order)) |->
                         IF axes(order)[i] \in DOMAIN current_shape_dict
                         THEN current_shape_dict[axes(order)[i]] ELSE 1]
    IN IF \E axis \in DOMAIN current_shape_dict :
              axis \notin AxisSet(axes(order)) /\ current_shape_dict[axis] # 1
       THEN [v |-> v, res |-> Raise("AssertionError", 154)]
       ELSE [v |-> [v EXCEPT !.axis_order = order, !.shape = new_shape], res |-> Ok]

\* a call on the Variable leaves the fields r.v behind and raised r.res
VStep(fn, shp, order, r) ==
    /\ vpre' = Var
    /\ shape' = r.v.shape
    /\ axis_order' = r.v.axis_order
    /\ attributes' = r.v.attributes
    /\ alive' = r.v.alive
    /\ vcall' = [fn |-> fn, shape |-> shp, order |-> order, res |-> r.res]
    /\ UNCHANGED linkvars

\* Variable(shape, axis_order): the constructor runs once, as the first call;
\* a failed construction leaves no Variable
Construct ==
    /\ ~alive
    /\ vcall.fn = "none"
    /\ \E shp \in Shapes, order \in AxisOrders :
           LET r == Variable_init(shp, order) IN
           VStep("__init__", shp, order,
                 IF r.res = Ok THEN r ELSE [v |-> Var, res |-> r.res])

ChangeAxisOrder ==
    /\ alive
    /\ \E order \in AxisOrders :
           VStep("change_axis_order", <<>>, order, change_axis_order(Var, order))

NextAxis ==
    \/ Construct
    \/ ChangeAxisOrder

SpecAxis == Init /\ [][NextAxis]_vars

TypeOK ==
    /\ \A op \in Ops : DictNames(inputs[op]) \subseteq Slots /\ DictValues(inputs[op]) \subseteq Vars
    /\ \A op \in Ops : DictNames(outputs[op]) \subseteq Slots /\ DictValues(outputs[op]) \subseteq Vars
    /\ \A op \in Ops : Cardinality(DictNames(inputs[op])) = Len(inputs[op])
    /\ \A op \in Ops : Cardinality(DictNames(outputs[op])) = Len(outputs[op])
    /\ \A v \in Vars : input_to[v] \subseteq Ops /\ output_from[v] \in Ops \cup {None}
    /\ ncalls \in 0..MaxCalls

\* ---- helpers for the properties ----
\* d[k] for a key that is present
DictAt(d, k) == d[DictGet(d, k)].var

\* the output slots, over all operators, that hold v
OutputSlotsOf(v) ==
    {<<op, i>> \in Ops \X (1..NumSlots) : i <= Len(outputs[op]) /\ outputs[op][i].var = v}

Conflict == Raise("KeyError", 76)

\* C1: single-writer invariant: every Variable occupies at most one output
\* slot over all operators, and a Variable in a slot of op.outputs has
\* output_from = op
C1_SingleWriter ==
    \A v \in Vars :
        /\ Cardinality(OutputSlotsOf(v)) <= 1
        /\ \A op \in Ops : v \in DictValues(outputs[op]) => output_from[v] = op

\* a replace_output that failed with the conflict error while some other
\* Variable is linked as an output
C1_Witness ==
    /\ call.fn = "replace_output"
    /\ call.res = Conflict
    /\ \E v \in Vars : OutputSlotsOf(v) # {}

\* C2: input back-link invariant: every operator is a member of input_to of
\* every Variable in one of its input slots
C2_InputBackLink ==
    \A op \in Ops : \A i \in 1..Len(inputs[op]) : op \in input_to[inputs[op][i].var]

\* C3: append_output of a Variable that is an output of another operator
\* fails with the conflict error and changes nothing
C3_SecondProducerRejected ==
    (/\ call.fn = "append_output"
     /\ \E op1 \in Ops \ {call.self} : call.var \in DictValues(pre.outputs[op1]))
    => (call.res = Conflict /\ Graph = pre)

C3_Witness ==
    /\ call.fn = "append_output"
    /\ \E op1 \in Ops \ {call.self} : call.var \in DictValues(pre.outputs[op1])
    /\ call.res = Conflict
    /\ \E op1 \in Ops \ {call.self} : output_from[call.var] = op1

\* C4: a replace_output(old, new) that fails with the conflict error leaves
\* the graph unmodified: old keeps its slot, old.output_from is still the
\* operator and new.output_from is unchanged
C4_ReplaceOutputConflictUnmodified ==
    (call.fn = "replace_output" /\ call.res = Conflict)
    => /\ outputs = pre.outputs
       /\ call.var \in DictValues(outputs[call.self])
       /\ output_from[call.var] = call.self
       /\ output_from[call.var2] = pre.output_from[call.var2]

\* C5: a remove_input or replace_input that raises leaves inputs and every
\* input_to as they were before the call
C5_FailedInputCallUnapplied ==
    (call.fn \in {"remove_input", "replace_input"} /\ call.res # Ok)
    => (inputs = pre.inputs /\ input_to = pre.input_to)

C7_InputRoundTrip ==
    (call.fn = "append_input" /\ call.name \notin DictNames(pre.inputs[call.self]))
    => LET r == remove_input(Graph, call.self, call.var) IN
       /\ r.res = Ok
       /\ DictMap(r.g.inputs[call.self]) = DictMap(pre.inputs[call.self])
       /\ r.g.input_to[call.var] = pre.input_to[call.var]

\* C8: append_output(s, v) into an unoccupied slot of a Variable without a
\* producer, followed by remove_output(v), restores outputs and leaves
\* v.output_from none
C8_OutputRoundTrip ==
    (/\ call.fn = "append_output"
     /\ call.name \notin DictNames(pre.outputs[call.self])
     /\ pre.output_from[call.var] = None)
    => /\ call.res = Ok
       /\ LET r == remove_output(Graph, call.self, call.var) IN
          /\ r.res = Ok
          /\ r.g.outputs = pre.outputs
          /\ r.g.output_from[call.var] = None
          /\ r.g = pre

\* an append_output into a free slot of an operator that already has another
\* output
C8_Witness ==
    /\ call.fn = "append_output"
    /\ call.name \notin DictNames(pre.outputs[call.self])
    /\ pre.output_from[call.var] = None
    /\ Len(pre.outputs[call.self]) > 0
    /\ call.var \in DictValues(outputs[call.self])

\* C9 as stated: append_output fails with the conflict error exactly when
\* var.output_from is an operator other than op, and otherwise succeeds with
\* op.outputs[slot] = var and var.output_from = op
C9_ConflictOnlyOtherProducer ==
    call.fn = "append_output"
    => /\ call.res = Conflict <=> pre.output_from[call.var] \notin {None, call.self}
       /\ call.res # Conflict
          => /\ call.res = Ok
             /\ call.name \in DictNames(outputs[call.self])
             /\ DictAt(outputs[call.self], call.name) = call.var
             /\ output_from[call.var] = call.self

\* C9 amended: append_output fails with the conflict error exactly when
\* var.output_from is set (to any operator, op itself included), and
\* otherwise succeeds with op.outputs[slot] = var and var.output_from = op
C9_ConflictAnyProducer ==
    call.fn = "append_output"
    => /\ call.res = Conflict <=> pre.output_from[call.var] # None
       /\ call.res = Conflict => Graph = pre
       /\ call.res # Conflict
          => /\ call.res = Ok
             /\ call.name \in DictNames(outputs[call.self])
             /\ DictAt(outputs[call.self], call.name) = call.var
             /\ output_from[call.var] = call.self

\* an operator appends, into another slot, a Variable it already produces
C9_Witness ==
    /\ call.fn = "append_output"
    /\ pre.output_from[call.var] = call.self
    /\ call.var \in DictValues(pre.outputs[call.self])
    /\ call.res = Conflict

\* C10: get_input_name / get_output_name return a slot holding var when var
\* is present, and fail with the lookup error kind (KeyError) whenever it is
\* not, the empty map included
C10_ReverseLookup ==
    call.fn \in {"get_input_name", "get_output_name"}
    => LET d == IF call.fn = "get_input_name"
                THEN inputs[call.self] ELSE outputs[call.self] IN
       IF call.var \in DictValues(d)
       THEN /\ call.res = Ok
            /\ call.ret \in DictNames(d)
            /\ DictAt(d, call.ret) = call.var
       ELSE call.res.exc = "KeyError"

\* C11: remove_input / replace_input of a Variable that occupies no input
\* slot of the operator, and remove_output / replace_output of a Variable
\* that occupies no output slot of it, fail and leave the whole graph
\* unchanged
C11_UnlinkedLookupFailsUnchanged ==
    /\ (/\ call.fn \in {"remove_input", "replace_input"}
        /\ call.var \notin DictValues(pre.inputs[call.self]))
       => (call.res # Ok /\ Graph = pre)
    /\ (/\ call.fn \in {"remove_output", "replace_output"}
        /\ call.var \notin DictValues(pre.outputs[call.self]))
       => (call.res # Ok /\ Graph = pre)

\* a remove_output of a Variable that another operator produces, on an
\* operator that has an output of its own
C11_Witness ==
    /\ call.fn = "remove_output"
    /\ call.var \notin DictValues(pre.outputs[call.self])
    /\ Len(pre.outputs[call.self]) > 0
    /\ pre.output_from[call.var] \notin {None, call.self}
    /\ call.res = Raise("KeyError", 58)

\* C15: append_input never fails; it puts var into the slot and op into
\* var.input_to and changes nothing else: when the slot held another
\* Variable w, w.input_to is as before, so op stays in it even when w holds
\* no input slot of op any more
C15_AppendInputOverwrite ==
    call.fn = "append_input"
    => /\ call.res = Ok
       /\ inputs[call.self] = DictSet(pre.inputs[call.self], call.name, call.var)
       /\ \A op \in Ops \ {call.self} : inputs[op] = pre.inputs[op]
       /\ input_to[call.var] = pre.input_to[call.var] \cup {call.self}
       /\ \A w \in Vars \ {call.var} : input_to[w] = pre.input_to[w]

\* the slot held another Variable w, which is left without a slot of op and
\* still has op in w.input_to
C15_Witness ==
    /\ call.fn = "append_input"
    /\ call.name \in DictNames(pre.inputs[call.self])
    /\ LET w == DictAt(pre.inputs[call.self], call.name) IN
       /\ w # call.var
       /\ w \notin DictValues(inputs[call.self])
       /\ call.self \in pre.input_to[w]
       /\ call.self \in input_to[w]

\* C17: converse of the producer link: a Variable whose output_from is op
\* occupies some slot of op.outputs (so op.remove_output can release it)
C17_ProducerHoldsSlot ==
    \A v \in Vars :
        output_from[v] # None => v \in DictValues(outputs[output_from[v]])

\* ---- properties of change_axis_order ----
\* position of axis a in an order that has it
AxisIndex(order, a) == CHOOSE j \in 1..Len(order) : order[j] = a

AxisFailure == Raise("AssertionError", 154)

\* some axis of the order before the call is absent from the new order and
\* has a size other than 1
DropsNonUnitAxis ==
    \E j \in 1..Len(vpre.axis_order) :
        /\ vpre.axis_order[j] \notin AxisSet(vcall.order)
        /\ vpre.shape[j] # 1

\* C12: change_axis_order(new_order) fails exactly when an axis of the
\* current order that is absent from new_order has size other than 1;
\* otherwise axis_order is new_order and shape[i] is the old size of axis i
\* of new_order if the old order had it, and 1 if not
C12_ChangeAxisOrderResult ==
    vcall.fn = "change_axis_order"
    => /\ vcall.res # Ok <=> DropsNonUnitAxis
       /\ ~DropsNonUnitAxis
          => /\ axis_order = vcall.order
             /\ Len(shape) = Len(vcall.order)
             /\ \A i \in 1..Len(vcall.order) :
                    shape[i] = IF vcall.order[i] \in AxisSet(vpre.axis_order)
                               THEN vpre.shape[AxisIndex(vpre.axis_order, vcall.order[i])]
                               ELSE 1

\* a successful call that drops a unit axis, introduces a new axis and keeps
\* an axis of size above 1
C12_Witness ==
    /\ vcall.fn = "change_axis_order"
    /\ vcall.res = Ok
    /\ \E a \in AxisSet(vpre.axis_order) : a \notin AxisSet(axis_order)
    /\ \E a \in AxisSet(axis_order) : a \notin AxisSet(vpre.axis_order)
    /\ \E i \in 1..Len(shape) : shape[i] > 1 /\ axis_order[i] \in AxisSet(vpre.axis_order)

\* C13: round trip: after change_axis_order(B) on a Variable under order A,
\* with every axis of A in B, the call has succeeded and change_axis_order(A)
\* succeeds and gives back the original shape and axis order; and
\* [1,3,8,8] under NCHW becomes [3,8,8] under CHW and [1,3,8,8] under NCHW
\* again
C13_AxisOrderRoundTrip ==
    /\ (/\ vcall.fn = "change_axis_order"
        /\ AxisSet(vpre.axis_order) \subseteq AxisSet(vcall.order))
       => /\ vcall.res = Ok
          /\ LET r == change_axis_order(Var, vpre.axis_order) IN
             /\ r.res = Ok
             /\ r.v.shape = vpre.shape
             /\ r.v.axis_order = vpre.axis_order
    /\ (/\ vcall.fn = "change_axis_order"
        /\ vpre.axis_order = OrderNCHW
        /\ vpre.shape = <<1, 3, 8, 8>>
        /\ vcall.order = OrderCHW)
       => /\ vcall.res = Ok
          /\ shape = <<3, 8, 8>>
          /\ axis_order = OrderCHW
          /\ LET r == change_axis_order(Var, OrderNCHW) IN
             /\ r.res = Ok
             /\ r.v.shape = <<1, 3, 8, 8>>
             /\ r.v.axis_order = OrderNCHW

\* the Variable of shape [3,8,8] under CHW has been changed to NCHW, which
\* has every axis of CHW
C13_Witness ==
    /\ vcall.fn = "change_axis_order"
    /\ vcall.res = Ok
    /\ vpre.axis_order = OrderCHW
    /\ vpre.shape = <<3, 8, 8>>
    /\ vcall.order = OrderNCHW
    /\ shape = <<1, 3, 8, 8>>

\* C14: the axis count of axis_order equals len(shape) for every constructed
\* Variable, after any sequence of change_axis_order calls; constructing a
\* Variable whose axis order declares another number of axes than the shape
\* has fails
C14_NdimMatchesShape ==
    /\ alive => ndim(axis_order) = Len(shape)
    /\ (vcall.fn = "__init__" /\ ndim(vcall.order) # Len(vcall.shape))
       => (vcall.res = Raise("AssertionError", 122) /\ ~alive)
    /\ (vcall.fn = "__init__" /\ ndim(vcall.order) = Len(vcall.shape))
       => (vcall.res = Ok /\ alive /\ shape = vcall.shape /\ axis_order = vcall.order)

\* a successful change_axis_order that changed the number of axes
C14_Witness ==
    /\ alive
    /\ vcall.fn = "change_axis_order"
    /\ vcall.res = Ok
    /\ Len(shape) # Len(vpre.shape)

\* C16: a change_axis_order that fails because a dropped axis has a size
\* other than 1 leaves shape and axis_order as they were
C16_FailedChangeUnchanged ==
    (vcall.fn = "change_axis_order" /\ vcall.res # Ok)
    => /\ vcall.res = AxisFailure
       /\ shape = vpre.shape
       /\ axis_order = vpre.axis_order
       /\ Var = vpre

\* a failed call towards an order other than the current one
C16_Witness ==
    /\ vcall.fn = "change_axis_order"
    /\ vcall.res = AxisFailure
    /\ vcall.order # vpre.axis_order
    /\ DropsNonUnitAxis
    /\ alive

\* C18: every successful change_axis_order preserves the size (the product
\* of the shape entries)
C18_SizePreserved ==
    (vcall.fn = "change_axis_order" /\ vcall.res = Ok)
    => size(Var) = size(vpre)

\* a successful call that changed the shape of a Variable of size above 1
C18_Witness ==
    /\ vcall.fn = "change_axis_order"
    /\ vcall.res = Ok
    /\ shape # vpre.shape
    /\ Len(shape) # Len(vpre.shape)
    /\ size(vpre) > 1

\* C19: the attribute set of a Variable contains its current axis_order and
\* no other axis order
C19_AttributesTrackAxisOrder ==
    alive => (axis_order \in attributes
              /\ \A o \in AxisOrders : o \in attributes => o = axis_order)
====
